---- MODULE Spec2Model ----
(***************************************************************************)
(* CycPep (python/dgllife/data/cycpep.py): a MoleculeCSVDataset subclass   *)
(* that reads a table of cyclic-peptide records, lets the base class build *)
(* or load the graphs, and re-indexes three metadata columns through the   *)
(* base class's valid_ids.                                                 *)
(*                                                                         *)
(* Python lists are modelled as sequences; a Python index k is position    *)
(* k + 1 of the sequence.  valid_ids holds Python (0-based) row indices.   *)
(***************************************************************************)
EXTENDS Integers, Sequences, FiniteSets, TLC

\* ------------------------------------------------------------------ bounds
\* Largest number of rows of the table file.
MaxRows == 2
\* The count of load_full assignments by callers saturates here.
SetCap == 2

\* ------------------------------------------------------- the file system
\* The path the constructor reads (cycpep.py:92-93) and another location a
\* caller might have wanted to load from.
HardcodedPath == "/mnt/c/Users/schau/Documents/PerpetualMedicine/data/all_cycpep_data.csv"
OtherPath == "./other_cycpep_data.csv"
Locations == {HardcodedPath, OtherPath}

\* Column values of row k (Python index k) of the table family.
SmilesPool == <<"CCO", "CCN", "CCC", "CCS", "CCF", "CCI">>
SourcePool == <<"paperA", "paperB", "paperA", "paperC", "paperB", "paperD">>
IdPool == <<"X1", "X2", "X3", "X4", "X5", "X6">>

Row(k) ==
    [SMILES |-> SmilesPool[k + 1],
     Permeability |-> 10 + k,
     Source |-> SourcePool[k + 1],
     cluster |-> 3 + (k \div 2),
     CycPeptMPDB_ID |-> IdPool[k + 1]]

\* A readable table file of n rows.
TableFile(n) == [status |-> "ok", rows |-> [k \in 1..n |-> Row(k - 1)]]

\* The table stored at the other location: different records.
OtherTable ==
    [status |-> "ok",
     rows |-> <<[SMILES |-> "OCC", Permeability |-> 77, Source |-> "paperZ",
                 cluster |-> 9, CycPeptMPDB_ID |-> "Z1"]>>]

\* Files that cannot be read as a table.
MissingFile == [status |-> "FileNotFoundError", rows |-> <<>>]
MalformedFile == [status |-> "ParserError", rows |-> <<>>]

HardcodedFiles == {TableFile(n) : n \in 0..MaxRows} \cup {MissingFile, MalformedFile}
OtherFiles == {OtherTable}

\* --------------------------------------------------- external collaborators
\* A graph builder (smiles_to_graph with its featurizers) is identified by the
\* set of SMILES strings it cannot turn into a graph.
AllSmiles == {SmilesPool[k] : k \in 1..MaxRows}
Builders == SUBSET AllSmiles

NoGraph == [mol |-> "", by |-> {}, ok |-> FALSE]

\* smiles_to_graph(s): a graph, or None when the molecule cannot be processed.
SmilesToGraph(s2g, s) ==
    IF s \in s2g THEN NoGraph ELSE [mol |-> s, by |-> s2g, ok |-> TRUE]

\* pandas: df[name].tolist()
Column(rows, name) == [k \in 1..Len(rows) |-> rows[k][name]]

\* [col[i] for i in ids]   (cycpep.py:111, 114, 118)
ReindexWhole(col, ids) == col
ReindexByPosition(col, ids) == [k \in 1..Len(ids) |-> col[k]]
Reindex(col, ids) == [k \in 1..Len(ids) |-> col[ids[k] + 1]]

\* pd.read_csv(path): the rows, or the error it raises.
ReadCsvLenient(file) ==
    [ok |-> TRUE, rows |-> file.rows, err |-> "none"]
ReadCsv(file) ==
    IF file.status = "ok"
    THEN [ok |-> TRUE, rows |-> file.rows, err |-> "none"]
    ELSE [ok |-> FALSE, rows |-> <<>>, err |-> file.status]

\* The arguments CycPep.__init__ hands to MoleculeCSVDataset.__init__.
SuperArgsSourceColumn(rows, s2g, ld) ==
    [df |-> rows, smiles_to_graph |-> s2g, smiles_column |-> "Source",
     task_names |-> <<"Permeability">>, load |-> ld, init_mask |-> FALSE]
SuperArgs(rows, s2g, ld) ==
    [df |-> rows, smiles_to_graph |-> s2g, smiles_column |-> "SMILES",
     task_names |-> <<"Permeability">>, load |-> ld, init_mask |-> FALSE]

\* The positions of seq whose element satisfies ok, as Python indices, ascending.
RECURSIVE ValidIds(_, _)
ValidIds(gs, n) ==
    IF n = 0 THEN <<>>
    ELSE IF gs[n].ok THEN Append(ValidIds(gs, n - 1), n - 1)
         ELSE ValidIds(gs, n - 1)

\* Indexing a list or tensor by a list of Python indices.
Take(seq, ids) == [k \in 1..Len(ids) |-> seq[ids[k] + 1]]

\* MoleculeCSVDataset._pre_process, building from scratch.
BuildFromScratch(a) ==
    LET smi == Column(a.df, a.smiles_column)
        all == [k \in 1..Len(smi) |-> SmilesToGraph(a.smiles_to_graph, smi[k])]
        ids == ValidIds(all, Len(all))
        lab == [k \in 1..Len(a.df) |->
                   [t \in 1..Len(a.task_names) |-> a.df[k][a.task_names[t]]]]
    IN  [graphs |-> Take(all, ids),
         labels |-> Take(lab, ids),
         valid_ids |-> ids]

\* save_graphs(cache_file_path, graphs, labels={'labels', 'valid_ids'})
NoCache == [exists |-> FALSE, graphs |-> <<>>,
            dict |-> [labels |-> <<>>, valid_ids |-> <<>>]]
SaveGraphs(b) ==
    [exists |-> TRUE, graphs |-> b.graphs,
     dict |-> [labels |-> b.labels, valid_ids |-> b.valid_ids]]

\* load_graphs(cache_file_path)
LoadGraphs(file) ==
    [graphs |-> file.graphs, labels |-> file.dict.labels,
     valid_ids |-> file.dict.valid_ids]

\* ------------------------------------------------------------------- state
VARIABLES
    fs,               \* location -> file (never written by the program)
    cache,            \* the file at cache_file_path
    cacheBy,          \* history: the builder the cache file was written with
    pc,               \* position of CycPep.__init__ / state of the instance
    err,              \* the exception __init__ raised, "none" otherwise
    tableLocation,    \* where the caller wanted the table loaded from
    smiles_to_graph,  \* constructor argument
    load,             \* constructor argument
    df,               \* local df of __init__
    assigned,         \* the attributes of self assigned so far
    smiles, graphs, labels, valid_ids,     \* attributes set by the base class
    load_full, paper, chem_cluster, cycpep_id,
    fromCache,        \* history: the base class took the load branch
    sets,             \* history: assignments of load_full by callers, saturating
    ret,              \* the outcome of the latest __getitem__ on the instance
    lenRet            \* the result of the latest len() on the instance, -1 if none

ctor == <<pc, err, tableLocation, smiles_to_graph, load, df, fromCache>>
arrays == <<smiles, graphs, labels, valid_ids, paper, chem_cluster, cycpep_id>>
vars == <<fs, cache, cacheBy, ctor, assigned, arrays, load_full, sets, ret, lenRet>>

NoCall == [kind |-> "none", item |-> 0, full |-> FALSE, val |-> <<>>]

Init ==
    /\ fs \in [Locations -> HardcodedFiles \cup OtherFiles]
    /\ fs[HardcodedPath] \in HardcodedFiles
    /\ fs[OtherPath] \in OtherFiles
    /\ cache = NoCache
    /\ cacheBy = {}
    /\ pc = "none"
    /\ err = "none"
    /\ tableLocation = HardcodedPath
    /\ smiles_to_graph = {}
    /\ load = FALSE
    /\ df = <<>>
    /\ assigned = {}
    /\ smiles = <<>> /\ graphs = <<>> /\ labels = <<>> /\ valid_ids = <<>>
    /\ load_full = FALSE
    /\ paper = <<>> /\ chem_cluster = <<>> /\ cycpep_id = <<>>
    /\ fromCache = FALSE
    /\ sets = 0
    /\ ret = NoCall
    /\ lenRet = -1

\* ------------------------------------------------------------ constructor
\* CycPep(...) is called: a new instance, lines 91-93.  The location the
\* caller has in mind is not a parameter; the path read is fixed.
ConstructRead(loc, s2g, ld) ==
    /\ pc \in {"none", "done", "failed"}
    /\ tableLocation' = loc
    /\ smiles_to_graph' = s2g
    /\ load' = ld
    /\ assigned' = {}
    /\ smiles' = <<>> /\ graphs' = <<>> /\ labels' = <<>> /\ valid_ids' = <<>>
    /\ paper' = <<>> /\ chem_cluster' = <<>> /\ cycpep_id' = <<>>
    /\ load_full' = FALSE
    /\ fromCache' = FALSE
    /\ sets' = 0
    /\ ret' = NoCall
    /\ lenRet' = -1
    /\ LET r == ReadCsv(fs[HardcodedPath])
       IN  /\ df' = r.rows
           /\ err' = r.err
           /\ pc' = IF r.ok THEN "super" ELSE "failed"
    /\ UNCHANGED <<fs, cache, cacheBy>>

\* super().__init__(...), lines 95-105: MoleculeCSVDataset.__init__.
SuperInit ==
    /\ pc = "super"
    /\ LET a == SuperArgs(df, smiles_to_graph, load)
           hit == cache.exists /\ a.load
           b == IF hit THEN LoadGraphs(cache) ELSE BuildFromScratch(a)
       IN  /\ graphs' = b.graphs
           /\ labels' = b.labels
           /\ valid_ids' = b.valid_ids
           /\ smiles' = Take(Column(a.df, a.smiles_column), b.valid_ids)
           /\ fromCache' = hit
           /\ cache' = IF hit THEN cache ELSE SaveGraphs(b)
           /\ cacheBy' = IF hit THEN cacheBy ELSE a.smiles_to_graph
    /\ assigned' = assigned \cup {"smiles", "graphs", "labels", "valid_ids"}
    /\ pc' = "flag"
    /\ UNCHANGED <<fs, err, tableLocation, smiles_to_graph, load, df,
                   paper, chem_cluster, cycpep_id, load_full, sets, ret, lenRet>>

\* self.load_full = False, line 107.
InitialLoadFullWrong == TRUE
InitialLoadFull == FALSE

SetFlag ==
    /\ pc = "flag"
    /\ load_full' = InitialLoadFull
    /\ assigned' = assigned \cup {"load_full"}
    /\ pc' = "paper"
    /\ UNCHANGED <<fs, cache, cacheBy, err, tableLocation, smiles_to_graph, load, df,
                   fromCache, arrays, sets, ret, lenRet>>

\* lines 110-111
SetPaper ==
    /\ pc = "paper"
    /\ paper' = Reindex(Column(df, "Source"), valid_ids)
    /\ assigned' = assigned \cup {"paper"}
    /\ pc' = "cluster"
    /\ UNCHANGED <<fs, cache, cacheBy, err, tableLocation, smiles_to_graph, load, df,
                   fromCache, smiles, graphs, labels, valid_ids, chem_cluster,
                   cycpep_id, load_full, sets, ret, lenRet>>

\* lines 113-114
SetCluster ==
    /\ pc = "cluster"
    /\ chem_cluster' = Reindex(Column(df, "cluster"), valid_ids)
    /\ assigned' = assigned \cup {"chem_cluster"}
    /\ pc' = "id"
    /\ UNCHANGED <<fs, cache, cacheBy, err, tableLocation, smiles_to_graph, load, df,
                   fromCache, smiles, graphs, labels, valid_ids, paper,
                   cycpep_id, load_full, sets, ret, lenRet>>

\* lines 117-118; __init__ returns and the instance becomes available.
SetId ==
    /\ pc = "id"
    /\ cycpep_id' = Reindex(Column(df, "CycPeptMPDB_ID"), valid_ids)
    /\ assigned' = assigned \cup {"cycpep_id"}
    /\ pc' = "done"
    /\ UNCHANGED <<fs, cache, cacheBy, err, tableLocation, smiles_to_graph, load, df,
                   fromCache, smiles, graphs, labels, valid_ids, paper,
                   chem_cluster, load_full, sets, ret, lenRet>>

\* ---------------------------------------------------------------- accessors
\* Python's list[item]: indices -n .. n-1 are in range, negative ones count
\* from the end; anything else raises IndexError.
PyInRange(item, n) == -n <= item /\ item < n
PyPos(item, n) == IF item >= 0 THEN item + 1 ELSE n + item + 1

IndexError(item) == [kind |-> "IndexError", item |-> item, full |-> load_full, val |-> <<>>]

\* CycPep.__getitem__, lines 143-147.
GetItemSwapped(item) ==
    LET fields == IF load_full
                  THEN <<smiles, graphs, labels, cycpep_id, chem_cluster, paper>>
                  ELSE <<smiles, graphs, labels>>
    IN  IF \E j \in 1..Len(fields) : ~PyInRange(item, Len(fields[j]))
        THEN IndexError(item)
        ELSE [kind |-> "tuple", item |-> item, full |-> load_full,
              val |-> [j \in 1..Len(fields) |-> fields[j][PyPos(item, Len(fields[j]))]]]
GetItemClamped(item) ==
    LET fields == IF load_full
                  THEN <<smiles, graphs, labels, paper, chem_cluster, cycpep_id>>
                  ELSE <<smiles, graphs, labels>>
        n == Len(smiles)
    IN  IF item >= n \/ n = 0
        THEN IndexError(item)
        ELSE [kind |-> "tuple", item |-> item, full |-> load_full,
              val |-> [j \in 1..Len(fields) |->
                          fields[j][IF item < -n THEN 1 ELSE PyPos(item, n)]]]
GetItem(item) ==
    LET fields == IF load_full
                  THEN <<smiles, graphs, labels, paper, chem_cluster, cycpep_id>>
                  ELSE <<smiles, graphs, labels>>
    IN  IF \E j \in 1..Len(fields) : ~PyInRange(item, Len(fields[j]))
        THEN IndexError(item)
        ELSE [kind |-> "tuple", item |-> item, full |-> load_full,
              val |-> [j \in 1..Len(fields) |-> fields[j][PyPos(item, Len(fields[j]))]]]

\* dataset[item]
GetConsuming(item) ==
    /\ pc = "done"
    /\ ret' = GetItem(item)
    /\ load_full' = FALSE
    /\ UNCHANGED <<fs, cache, cacheBy, ctor, assigned, arrays, sets, lenRet>>
Get(item) ==
    /\ pc = "done"
    /\ ret' = GetItem(item)
    /\ UNCHANGED <<fs, cache, cacheBy, ctor, assigned, arrays, load_full, sets, lenRet>>

\* len(dataset): MoleculeCSVDataset.__len__
Length ==
    /\ pc = "done"
    /\ lenRet' = Len(valid_ids)
    /\ UNCHANGED <<fs, cache, cacheBy, ctor, assigned, arrays, load_full, sets, ret>>

\* dataset.load_full = b
SetFullModeResetting(b) ==
    /\ pc = "done"
    /\ load_full' = b
    /\ sets' = IF sets < SetCap THEN sets + 1 ELSE sets
    /\ smiles' = <<>>
    /\ UNCHANGED <<fs, cache, cacheBy, ctor, assigned, graphs, labels,
                   valid_ids, paper, chem_cluster, cycpep_id, ret, lenRet>>
SetFullMode(b) ==
    /\ pc = "done"
    /\ load_full' = b
    /\ sets' = IF sets < SetCap THEN sets + 1 ELSE sets
    /\ UNCHANGED <<fs, cache, cacheBy, ctor, assigned, arrays, ret, lenRet>>

\* ------------------------------------------------------------ specification
Items == (0 - (MaxRows + 1))..(MaxRows + 1)

Construct == \E loc \in Locations, s2g \in Builders, ld \in BOOLEAN : ConstructRead(loc, s2g, ld)
GetAny == \E item \in Items : Get(item)
SetAny == \E b \in BOOLEAN : SetFullMode(b)

Next ==
    \/ Construct
    \/ SuperInit
    \/ SetFlag
    \/ SetPaper
    \/ SetCluster
    \/ SetId
    \/ GetAny
    \/ Length
    \/ SetAny

Spec == Init /\ [][Next]_vars

\* ------------------------------------------------------------------ claims
Built == pc \in {"flag", "paper", "cluster", "id", "done"}
ValidItem(item) == 0 <= item /\ item < Len(valid_ids)
IsGet(r) == r.kind \in {"tuple", "IndexError"}
Triple(i) == <<smiles[i + 1], graphs[i + 1], labels[i + 1]>>
Sextuple(i) == <<smiles[i + 1], graphs[i + 1], labels[i + 1],
                 paper[i + 1], chem_cluster[i + 1], cycpep_id[i + 1]>>

\* C1: after construction, position i of paper, chem_cluster and cycpep_id
\* holds the Source, cluster and CycPeptMPDB_ID of table row valid_ids[i], the
\* row smiles[i], graphs[i] and labels[i] come from, whatever rows were
\* dropped and whether the graphs were built or loaded from the cache.
C1_MetadataAligned ==
    pc = "done" =>
        \A i \in 1..Len(valid_ids) :
            LET row == df[valid_ids[i] + 1]
            IN  /\ paper[i] = row.Source
                /\ chem_cluster[i] = row.cluster
                /\ cycpep_id[i] = row.CycPeptMPDB_ID
                /\ smiles[i] = row.SMILES
                /\ graphs[i].ok /\ graphs[i].mol = row.SMILES
                /\ labels[i] = <<row.Permeability>>

\* Loaded from the cache, with row 0 dropped and a later row kept.
C1_Witness ==
    /\ pc = "done" /\ fromCache
    /\ Len(valid_ids) >= 1 /\ valid_ids[1] # 0

C3_Original ==
    IsGet(ret) /\ (ret.item >= Len(valid_ids) \/ ret.item < 0) => ret.kind = "IndexError"

\* C3 amended: __getitem__ fails with IndexError exactly for the indices
\* >= len and < -len, in both modes; an index in [-len, 0) returns the tuple
\* of position index + len.
C3_Bounds ==
    IsGet(ret) =>
        LET n == Len(valid_ids)
        IN  /\ ret.kind = "IndexError" <=> (ret.item >= n \/ ret.item < 0 - n)
            /\ ret.kind = "tuple" /\ ret.item < 0 =>
                   ret.val = IF ret.full THEN Sextuple(ret.item + n)
                             ELSE Triple(ret.item + n)

\* A negative index in full mode returned the last element's tuple.
C3_Witness ==
    /\ pc = "done" /\ Len(valid_ids) >= 2
    /\ ret.kind = "tuple" /\ ret.item = -1 /\ ret.full

\* C4: len() is the number of entries of valid_ids, at most the number of rows
\* of the table, and all six sequences have that length.
C4_Lengths ==
    pc = "done" =>
        LET n == Len(valid_ids)
        IN  /\ n <= Len(fs[HardcodedPath].rows)
            /\ Len(smiles) = n /\ Len(graphs) = n /\ Len(labels) = n
            /\ Len(paper) = n /\ Len(chem_cluster) = n /\ Len(cycpep_id) = n
            /\ lenRet # -1 => lenRet = n

\* len() was called on a dataset that lost some but not all rows.
C4_Witness ==
    /\ pc = "done" /\ lenRet >= 1 /\ lenRet < Len(df)

C6_TableFromLocation ==
    Built => df = fs[tableLocation].rows

\* C7: when reading the table fails, the constructor fails with that error;
\* the base class is never entered, no cache file is written and no instance
\* answers __getitem__ or len().
C7_ReadFailureFatal ==
    fs[HardcodedPath].status # "ok" =>
        /\ pc \in {"none", "failed"}
        /\ pc = "failed" => err = fs[HardcodedPath].status
        /\ assigned = {}
        /\ ~cache.exists
        /\ ret = NoCall /\ lenRet = -1

\* The constructor failed on a malformed table although load was requested.
C7_Witness ==
    /\ pc = "failed" /\ err = "ParserError" /\ load

\* C8: __getitem__ (failing or not) and len() change no attribute of the
\* instance, and assigning load_full changes load_full alone.
C8_Frame ==
    [][/\ (GetAny \/ Length) => UNCHANGED <<arrays, load_full, assigned, cache>>
       /\ SetAny => UNCHANGED <<arrays, assigned, cache>>]_vars

\* All three accessors have been used, one __getitem__ failing.
C8_Witness ==
    /\ pc = "done" /\ Len(valid_ids) >= 1
    /\ ret.kind = "IndexError" /\ lenRet # -1 /\ sets >= 1 /\ load_full

\* C9: the constructor leaves load_full false, so until a caller assigns it
\* __getitem__ returns 3-tuples; load_full and the metadata attributes are
\* assigned only after the base class has assigned valid_ids.
C9_InitialMode ==
    /\ pc = "done" /\ sets = 0 =>
           /\ load_full = FALSE
           /\ IsGet(ret) /\ ValidItem(ret.item) =>
                  ret.kind = "tuple" /\ Len(ret.val) = 3
    /\ assigned \cap {"load_full", "paper", "chem_cluster", "cycpep_id"} # {} =>
           "valid_ids" \in assigned

\* A valid __getitem__ on a freshly constructed instance.
C9_Witness ==
    /\ pc = "done" /\ sets = 0
    /\ ret.kind = "tuple" /\ ValidItem(ret.item)

\* C10: a __getitem__ call for the index and mode of the previous call
\* returns the previous result, whatever load_full assignments came between.
C10_HistoryFree ==
    [][IsGet(ret) /\ IsGet(ret') /\ ret'.item = ret.item /\ ret'.full = ret.full
       => ret' = ret]_vars

\* A 3-tuple returned after load_full was assigned twice and is false again.
C10_Witness ==
    /\ pc = "done" /\ sets >= 2 /\ ~load_full
    /\ ret.kind = "tuple" /\ ~ret.full

====
